---- MODULE Spec2Model ----
(***************************************************************************)
(* A model of PyFstat's signal-to-noise and detector-state code            *)
(* (pyfstat/snr.py) and of its lalsuite helpers                            *)
(* (pyfstat/utils/runlalsuite.py).                                         *)
(*                                                                         *)
(* Floating-point values are modelled as exact rationals, extended with    *)
(* the IEEE specials NaN, +inf and -inf; Python's None and an attribute    *)
(* that was never assigned are two further kinds of the same record, so   *)
(* that any two values can be compared.                                    *)
(*                                                                         *)
(* Calls are synchronous: a call starts when no call is in progress        *)
(* (call = Idle), runs to its return or its exception in one step, and the *)
(* caller then takes the outcome (Return).                                 *)
(***************************************************************************)
EXTENDS Integers, Sequences, FiniteSets, TLC

VARIABLES
    snr,    \* the SignalToNoiseRatio instance most recently constructed
    ds,     \* the DetectorStates instance
    call,   \* the call in progress: its arguments, its steps and its outcome
    threads \* the get_multi_detector_states invocations of concurrent threads

vars == <<snr, ds, call, threads>>

(***************************************************************************)
(* Bounds of the model.                                                    *)
(***************************************************************************)
MaxAmp == 1        \* h0, aPlus, aCross range over 0..MaxAmp
CosiDen == 2       \* cosi ranges over -1..1 in steps of 1/CosiDen
MaxSqrtSX == 2     \* assumeSqrtSX ranges over 0..MaxSqrtSX and 1/2
MaxSnr2 == 2       \* the quadratic form ranges over 0..MaxSnr2 (and NaN, -3, 1/2)
MaxFreq == 3       \* covering frequencies range over -1..MaxFreq (and halves)
MaxLen == 2        \* longest timestamp array
MaxSec == 1        \* whole seconds of a timestamp range over -1..MaxSec
MaxTick == 3       \* fractions of a second: 0..MaxTick ticks of 2^-FracBits s
FracBits == 10     \* a tick is 2^-FracBits s, which is not a whole number of ns
NumThreads == 2    \* threads that call one DetectorStates instance concurrently

(***************************************************************************)
(* Numbers.                                                                *)
(***************************************************************************)
None == [k |-> "None", n |-> 0, d |-> 1]
Unset == [k |-> "unset", n |-> 0, d |-> 1]
NaN == [k |-> "nan", n |-> 0, d |-> 1]
PosInf == [k |-> "inf", n |-> 1, d |-> 1]
NegInf == [k |-> "inf", n |-> -1, d |-> 1]

Abs(i) == IF i < 0 THEN -i ELSE i

RECURSIVE GCD(_, _)
GCD(a, b) == IF b = 0 THEN a ELSE GCD(b, a % b)

\* The rational n/d in lowest terms with a positive denominator.
Rat(n, d) ==
    LET g == GCD(Abs(n), Abs(d))
        s == IF d < 0 THEN -1 ELSE 1
    IN [k |-> "num", n |-> s * (n \div g), d |-> s * (d \div g)]

RInt(i) == [k |-> "num", n |-> i, d |-> 1]

IsNum(x) == x.k = "num"
IsNaN(x) == x.k = "nan"
IsInf(x) == x.k = "inf"
IsFloat(x) == x.k \in {"num", "nan", "inf", "sqrt"}

\* The sign of a float other than NaN: -1, 0 or 1.
Sign(x) == IF x.n < 0 THEN -1 ELSE IF x.n > 0 THEN 1 ELSE 0

\* Exact rational arithmetic; products cancel common factors first.
RAdd(x, y) == Rat(x.n * y.d + y.n * x.d, x.d * y.d)
RNeg(x) == [k |-> "num", n |-> -x.n, d |-> x.d]
RSub(x, y) == RAdd(x, RNeg(y))
RMul(x, y) ==
    LET g1 == GCD(Abs(x.n), y.d)
        g2 == GCD(Abs(y.n), x.d)
    IN Rat((x.n \div g1) * (y.n \div g2), (x.d \div g2) * (y.d \div g1))
RDiv(x, y) == RMul(x, Rat(y.d, y.n))
RLt(x, y) == x.n * y.d < y.n * x.d
RLeq(x, y) == x.n * y.d <= y.n * x.d

\* IEEE arithmetic on floats: NaN propagates, infinities keep their sign.
FAdd(x, y) ==
    IF IsNaN(x) \/ IsNaN(y) THEN NaN
    ELSE IF IsInf(x) /\ IsInf(y) THEN (IF x.n = y.n THEN x ELSE NaN)
    ELSE IF IsInf(x) THEN x
    ELSE IF IsInf(y) THEN y
    ELSE RAdd(x, y)

FMul(x, y) ==
    IF IsNaN(x) \/ IsNaN(y) THEN NaN
    ELSE IF IsInf(x) \/ IsInf(y)
         THEN (IF Sign(x) * Sign(y) = 0 THEN NaN
               ELSE IF Sign(x) * Sign(y) > 0 THEN PosInf ELSE NegInf)
    ELSE RMul(x, y)

\* IEEE comparisons: every comparison with NaN is false.
FLt(x, y) ==
    IF IsNaN(x) \/ IsNaN(y) THEN FALSE
    ELSE IF IsInf(x) THEN x.n < 0 /\ ~(IsInf(y) /\ y.n < 0)
    ELSE IF IsInf(y) THEN y.n > 0
    ELSE RLt(x, y)

FLeq(x, y) ==
    IF IsNaN(x) \/ IsNaN(y) THEN FALSE
    ELSE x = y \/ FLt(x, y)

ISqrt(i) == CHOOSE r \in 0..i : r * r <= i /\ (r + 1) * (r + 1) > i
IsSquare(i) == ISqrt(i) * ISqrt(i) = i

\* np.sqrt: NaN for NaN and for negative numbers; a rational where the root is
\* one, and otherwise the surd, kept as its radicand n/d.
FSqrt(x) ==
    IF IsNaN(x) THEN NaN
    ELSE IF IsInf(x) THEN (IF x.n > 0 THEN PosInf ELSE NaN)
    ELSE IF x.n < 0 THEN NaN
    ELSE IF IsSquare(x.n) /\ IsSquare(x.d) THEN Rat(ISqrt(x.n), ISqrt(x.d))
    ELSE [k |-> "sqrt", n |-> x.n, d |-> x.d]

\* x ** 2
FSquare(x) == FMul(x, x)

Idle == [op |-> "idle"]

(***************************************************************************)
(* SignalToNoiseRatio (snr.py).                                            *)
(***************************************************************************)
NoiseWeightsObj == [k |-> "weights", n |-> 0, d |-> 1]

Half == Rat(1, 2)
Opt(S) == S \cup {None}

TsftValues == {RInt(1800)}
NoiseWeightsValues == {None, NoiseWeightsObj}
SqrtSXValues == {RInt(i) : i \in 0..MaxSqrtSX} \cup {Half}
AmpValues == {RInt(i) : i \in 0..MaxAmp}
CosiValues == {Rat(i, CosiDen) : i \in -CosiDen..CosiDen}
AngleValues == {RInt(0), Half}
\* What lalpulsar.ComputeOptimalSNR2FromMmunu may hand back: the library is not
\* part of this repository, so its value is any float.
QuadValues == {NaN, RInt(-3), Half} \cup {RInt(i) : i \in 0..MaxSnr2}

NoObject ==
    [constructed |-> FALSE, Tsft |-> Unset, noise_weights |-> Unset,
     assumeSqrtSX |-> Unset, Sinv_Tsft |-> Unset]

\* self.Tsft / self.assumeSqrtSX**2
SinvTsft(Tsft, assumeSqrtSX) == RDiv(Tsft, FSquare(assumeSqrtSX))

\* __attrs_post_init__ on the fields attrs has stored: the exception it raises
\* ("none" when it returns) and the instance it leaves.
attrs_post_init_NoElif(deltaT, noise_weights, assumeSqrtSX) ==
    LET self == [constructed |-> TRUE, Tsft |-> deltaT,
                 noise_weights |-> noise_weights,
                 assumeSqrtSX |-> assumeSqrtSX, Sinv_Tsft |-> Unset]
    IN  IF noise_weights = None
        THEN IF assumeSqrtSX # None
             THEN IF FSquare(assumeSqrtSX).n = 0
                  THEN [exc |-> "ZeroDivisionError", self |-> self]
                  ELSE [exc |-> "none",
                        self |-> [self EXCEPT
                                    !.Sinv_Tsft = SinvTsft(deltaT, assumeSqrtSX)]]
             ELSE [exc |-> "ValueError", self |-> self]
        ELSE [exc |-> "none", self |-> self]

attrs_post_init(deltaT, noise_weights, assumeSqrtSX) ==
    LET self == [constructed |-> TRUE, Tsft |-> deltaT,
                 noise_weights |-> noise_weights,
                 assumeSqrtSX |-> assumeSqrtSX, Sinv_Tsft |-> Unset]
    IN  IF noise_weights = None
        THEN IF assumeSqrtSX # None
             THEN IF FSquare(assumeSqrtSX).n = 0
                  THEN [exc |-> "ZeroDivisionError", self |-> self]
                  ELSE [exc |-> "none",
                        self |-> [self EXCEPT
                                    !.Sinv_Tsft = SinvTsft(deltaT, assumeSqrtSX)]]
             ELSE [exc |-> "ValueError", self |-> self]
        ELSE IF assumeSqrtSX # None
        THEN [exc |-> "ValueError", self |-> self]
        ELSE [exc |-> "none", self |-> self]

\* _convert_amplitude_parameters
convert_amplitude_parameters_NoHalf(h0, cosi, aPlus, aCross) ==
    LET h0_cosi == h0 # None /\ cosi # None
        aPlusCross == aPlus # None /\ aCross # None
    IN  IF h0_cosi = aPlusCross
        THEN [exc |-> "ValueError", aPlus |-> None, aCross |-> None]
        ELSE IF h0_cosi
        THEN [exc |-> "none",
              aPlus |-> FMul(h0, FAdd(RInt(1), FSquare(cosi))),
              aCross |-> FMul(h0, cosi)]
        ELSE [exc |-> "none", aPlus |-> aPlus, aCross |-> aCross]

convert_amplitude_parameters(h0, cosi, aPlus, aCross) ==
    LET h0_cosi == h0 # None /\ cosi # None
        aPlusCross == aPlus # None /\ aCross # None
    IN  IF h0_cosi = aPlusCross
        THEN [exc |-> "ValueError", aPlus |-> None, aCross |-> None]
        ELSE IF h0_cosi
        THEN [exc |-> "none",
              aPlus |-> FMul(FMul(Half, h0), FAdd(RInt(1), FSquare(cosi))),
              aCross |-> FMul(h0, cosi)]
        ELSE [exc |-> "none", aPlus |-> aPlus, aCross |-> aCross]

\* compute_Mmunu: the matrix lalpulsar.ComputeMultiAMCoeffs builds from the
\* instance's detector states and weights at the sky position; without noise
\* weights its normalisation is overwritten with the instance's Sinv_Tsft.
LibraryValue == [k |-> "library", n |-> 0, d |-> 1]
compute_Mmunu(self, Alpha, Delta) ==
    [longitude |-> Alpha, latitude |-> Delta,
     multiWeights |-> self.noise_weights,
     Sinv_Tsft |-> IF self.noise_weights = None THEN self.Sinv_Tsft
                   ELSE LibraryValue]

NoAphys == [psi |-> None, phi0 |-> None, aPlus |-> None, aCross |-> None]
NoMmunu ==
    [longitude |-> None, latitude |-> None, multiWeights |-> None,
     Sinv_Tsft |-> None]

\* compute_snr2, with quad the value lalpulsar.ComputeOptimalSNR2FromMmunu
\* returns for (Aphys, M).
compute_snr2(self, a, quad) ==
    LET c == convert_amplitude_parameters(a.h0, a.cosi, a.aPlus, a.aCross)
    IN  IF c.exc # "none"
        THEN [exc |-> c.exc, ret |-> None, Aphys |-> NoAphys, M |-> NoMmunu]
        ELSE [exc |-> "none", ret |-> quad,
              Aphys |-> [psi |-> a.psi, phi0 |-> a.phi0,
                         aPlus |-> c.aPlus, aCross |-> c.aCross],
              M |-> compute_Mmunu(self, a.Alpha, a.Delta)]

\* compute_twoF: forwards its arguments to compute_snr2.
compute_twoF_MeanTwice(self, a, quad) ==
    LET s == compute_snr2(self, a, quad)
    IN  IF s.exc # "none"
        THEN [exc |-> s.exc, snr2_args |-> a, snr2 |-> None,
              expected_2F |-> None, stdev_2F |-> None]
        ELSE [exc |-> "none", snr2_args |-> a, snr2 |-> s.ret,
              expected_2F |-> FAdd(s.ret, RInt(4)),
              stdev_2F |-> FSqrt(FAdd(RInt(8), FMul(RInt(2), s.ret)))]

compute_twoF(self, a, quad) ==
    LET s == compute_snr2(self, a, quad)
    IN  IF s.exc # "none"
        THEN [exc |-> s.exc, snr2_args |-> a, snr2 |-> None,
              expected_2F |-> None, stdev_2F |-> None]
        ELSE [exc |-> "none", snr2_args |-> a, snr2 |-> s.ret,
              expected_2F |-> FAdd(s.ret, RInt(4)),
              stdev_2F |-> FSqrt(FAdd(RInt(8), FMul(RInt(4), s.ret)))]

Snr2Args ==
    [Alpha : AngleValues, Delta : AngleValues, psi : AngleValues,
     phi0 : AngleValues, h0 : Opt(AmpValues), cosi : Opt(CosiValues),
     aPlus : Opt(AmpValues), aCross : Opt(AmpValues)]

\* SignalToNoiseRatio(detector_states=..., noise_weights=..., assumeSqrtSX=...):
\* a construction that raises leaves no new instance.
Construct ==
    /\ call = Idle
    /\ \E deltaT \in TsftValues, nw \in NoiseWeightsValues,
          sx \in Opt(SqrtSXValues) :
          LET r == attrs_post_init(deltaT, nw, sx)
          IN  /\ call' = [op |-> "SignalToNoiseRatio",
                          args |-> [deltaT |-> deltaT, noise_weights |-> nw,
                                    assumeSqrtSX |-> sx],
                          exc |-> r.exc]
              /\ snr' = IF r.exc = "none" THEN r.self ELSE snr
    /\ UNCHANGED <<ds, threads>>

CallConvertAmplitudeParameters ==
    /\ call = Idle
    /\ snr.constructed
    /\ \E h0 \in Opt(AmpValues), cosi \in Opt(CosiValues),
          aPlus \in Opt(AmpValues), aCross \in Opt(AmpValues) :
          LET r == convert_amplitude_parameters(h0, cosi, aPlus, aCross)
          IN  call' = [op |-> "_convert_amplitude_parameters",
                       args |-> [h0 |-> h0, cosi |-> cosi, aPlus |-> aPlus,
                                 aCross |-> aCross],
                       exc |-> r.exc, aPlus |-> r.aPlus, aCross |-> r.aCross]
    /\ UNCHANGED <<snr, ds, threads>>

CallComputeSnr2 ==
    /\ call = Idle
    /\ snr.constructed
    /\ \E a \in Snr2Args, quad \in QuadValues :
          LET r == compute_snr2(snr, a, quad)
          IN  call' = [op |-> "compute_snr2", args |-> a, exc |-> r.exc,
                       quad |-> IF r.exc = "none" THEN quad ELSE None,
                       snr2 |-> r.ret, Aphys |-> r.Aphys, M |-> r.M]
    /\ UNCHANGED <<snr, ds, threads>>

CallComputeTwoF ==
    /\ call = Idle
    /\ snr.constructed
    /\ \E a \in Snr2Args, quad \in QuadValues :
          LET r == compute_twoF(snr, a, quad)
          IN  call' = [op |-> "compute_twoF", args |-> a, exc |-> r.exc,
                       quad |-> IF r.exc = "none" THEN quad ELSE None,
                       snr2_args |-> r.snr2_args, snr2 |-> r.snr2,
                       expected_2F |-> r.expected_2F,
                       stdev_2F |-> r.stdev_2F]
    /\ UNCHANGED <<snr, ds, threads>>

\* The caller takes the outcome of the call.
Return ==
    /\ call # Idle
    /\ call' = Idle
    /\ UNCHANGED <<snr, ds, threads>>

NoDetectorStates == [constructed |-> FALSE]

\* A thread that is not inside get_multi_detector_states.
Threads == 1..NumThreads
NotStarted == [pc |-> "idle"]

Init ==
    /\ snr = NoObject
    /\ ds = NoDetectorStates
    /\ call = Idle
    /\ threads = [t \in Threads |-> NotStarted]

NextSNR ==
    \/ Construct
    \/ CallConvertAmplitudeParameters
    \/ CallComputeSnr2
    \/ CallComputeTwoF
    \/ Return

SpecSNR == Init /\ [][NextSNR]_vars

(***************************************************************************)
(* get_covering_band (utils/runlalsuite.py).                               *)
(***************************************************************************)
\* What lalpulsar.CWSignalCoveringBand may hand back: any pair of floats.
FreqValues == {NaN, PosInf, NegInf} \cup {Rat(i, 2) : i \in -2..2 * MaxFreq}
F0Values == {RInt(0), RInt(100)}
Zero == RInt(0)

\* The test of lines 103-109: the pair is refused.
InvalidCoverPair(minCoverFreq, maxCoverFreq) ==
    \/ IsNaN(minCoverFreq)
    \/ IsNaN(maxCoverFreq)
    \/ FLeq(minCoverFreq, Zero)
    \/ FLeq(maxCoverFreq, Zero)
    \/ FLt(maxCoverFreq, minCoverFreq)

\* get_covering_band with the keyword defaults, the library returning
\* (minCoverFreq, maxCoverFreq) for the spin range it is given.
get_covering_band(tref, tstart, tend, F0, F1, F2, minCoverFreq, maxCoverFreq) ==
    LET psr == [fkdot |-> <<F0, F1, F2>>, fkdotBand |-> <<Zero, Zero, Zero>>,
                refTime |-> tref]
    IN  IF InvalidCoverPair(minCoverFreq, maxCoverFreq)
        THEN [exc |-> "RuntimeError", ret |-> <<None, None>>, psr |-> psr]
        ELSE [exc |-> "none", ret |-> <<minCoverFreq, maxCoverFreq>>,
              psr |-> psr]

CallGetCoveringBand ==
    /\ call = Idle
    /\ \E F0 \in F0Values, lo \in FreqValues, hi \in FreqValues :
          LET r == get_covering_band(Zero, Zero, RInt(1), F0, Zero, Zero, lo, hi)
          IN  call' = [op |-> "get_covering_band", psr |-> r.psr,
                       library |-> <<lo, hi>>, exc |-> r.exc, ret |-> r.ret]
    /\ UNCHANGED <<snr, ds, threads>>

NextBand ==
    \/ CallGetCoveringBand
    \/ Return

SpecBand == Init /\ [][NextBand]_vars

(***************************************************************************)
(* DetectorStates (snr.py).                                                *)
(***************************************************************************)
NanoPerSec == 1000000000

\* np.floor of a finite float, as an integer.
Floor(t) == t.n \div t.d
Truncate(t) == IF t.n < 0 THEN -((-t.n) \div t.d) ELSE t.n \div t.d

\* seconds_array and nanoseconds_array, elementwise (lines 421-422).
seconds_Truncated(t) == Truncate(t)
seconds(t) == Floor(t)
nanoseconds(t) == Floor(FMul(RInt(NanoPerSec), RSub(t, RInt(seconds(t)))))

\* A numpy array: its dtype ("float", "U" for strings, "O" for objects), its
\* number of dimensions and its elements (of a 2-D array, its rows).
NdArray(dtype, ndim, data) == [dtype |-> dtype, ndim |-> ndim, data |-> data]

PyList(v) == [k |-> "list", v |-> v]
PyStr(v) == [k |-> "str", v |-> v]
Range(f) == {f[i] : i \in DOMAIN f}

\* np.array(timestamps) of a Python value: a number gives a 0-d array, a list of
\* numbers a 1-d one, a list of equally long lists of numbers a 2-d one; strings
\* (also mixed with numbers) give a string array, and ragged nesting or other
\* objects an object array (numpy >= 1.24 raises ValueError for ragged nesting
\* itself, which is the same exception as line 395 raises for dtype "O").
np_array(x) ==
    IF IsFloat(x) THEN NdArray("float", 0, <<x>>)
    ELSE IF x.k = "str" THEN NdArray("U", 0, <<x>>)
    ELSE IF x.k # "list" THEN NdArray("O", 0, <<x>>)
    ELSE LET kinds == {IF IsFloat(e) THEN "float" ELSE e.k : e \in Range(x.v)}
         IN  IF kinds \subseteq {"float"} THEN NdArray("float", 1, x.v)
             ELSE IF kinds \subseteq {"float", "str"} THEN NdArray("U", 1, x.v)
             ELSE IF /\ kinds = {"list"}
                     /\ \A e \in Range(x.v) :
                          /\ Len(e.v) = Len(x.v[1].v)
                          /\ \A y \in Range(e.v) : IsFloat(y)
                  THEN NdArray("float", 2, x.v)
             ELSE NdArray("O", 1, x.v)

\* A LIGOTimeGPSVector; lalpulsar.CreateTimestampVector zero-fills it, so its
\* deltaT is 0 until assigned.  NullVector is a slot not yet filled.
NullVector == [null |-> TRUE, length |-> 0, data |-> <<>>, deltaT |-> Unset]
TimestampVector(data, deltaT) ==
    [null |-> FALSE, length |-> Len(data), data |-> data, deltaT |-> deltaT]

\* Tsft or 0
TsftOrZero(Tsft) == IF Tsft = None \/ Tsft = Zero THEN Zero ELSE Tsft

\* The exception int() raises on a float: NaN and the infinities have no integer.
IntError(t) ==
    IF IsNaN(t) THEN "ValueError"
    ELSE IF IsInf(t) THEN "OverflowError"
    ELSE "none"

RECURSIVE FirstIntError(_, _)
FirstIntError(data, ind) ==
    IF ind > Len(data) THEN "none"
    ELSE IF IntError(data[ind]) # "none" THEN IntError(data[ind])
    ELSE FirstIntError(data, ind + 1)

\* _numpy_array_to_LIGOTimeGPSVector.  emptyOk: whether the library's
\* CreateTimestampVector(0) returns a vector (it allocates zero bytes) or fails.
numpy_array_to_LIGOTimeGPSVector(numpy_array, Tsft, emptyOk) ==
    IF numpy_array.ndim # 1
    THEN [exc |-> "ValueError", ret |-> NullVector]
    ELSE IF numpy_array.dtype # "float"
    THEN [exc |-> "TypeError", ret |-> NullVector]
    ELSE IF Len(numpy_array.data) = 0 /\ ~emptyOk
    THEN [exc |-> "RuntimeError", ret |-> NullVector]
    ELSE IF FirstIntError(numpy_array.data, 1) # "none"
    THEN [exc |-> FirstIntError(numpy_array.data, 1), ret |-> NullVector]
    ELSE [exc |-> "none",
          ret |-> TimestampVector(
                    [ind \in 1..Len(numpy_array.data) |->
                        <<seconds(numpy_array.data[ind]),
                          nanoseconds(numpy_array.data[ind])>>],
                    IF Len(numpy_array.data) > 0 THEN TsftOrZero(Tsft)
                    ELSE Zero)]

\* Timestamps: whole seconds -1..MaxSec plus a fraction, which is a half or a few
\* ticks of 2^-FracBits s (ticks finer than a nanosecond).
TickDen == 2 ^ FracBits
FracValues == {Rat(a, TickDen) : a \in 0..MaxTick} \cup {Half}
TimeValues == {RAdd(RInt(sec), f) : sec \in -1..MaxSec, f \in FracValues}

SeqsUpTo(S, len) == UNION {[1..m -> S] : m \in 0..len}

ArrayValues ==
    {NdArray("float", 1, v) : v \in SeqsUpTo(TimeValues \cup {NaN, PosInf}, MaxLen)}
        \cup {NdArray("float", 0, <<Zero>>),
              NdArray("float", 2, <<PyList(<<Zero>>), PyList(<<Half>>)>>),
              NdArray("U", 1, <<PyStr("a")>>)}

CallNumpyArrayToLIGOTimeGPSVector ==
    /\ call = Idle
    /\ \E numpy_array \in ArrayValues, Tsft \in {None, Zero, RInt(1800)},
          emptyOk \in BOOLEAN :
          LET r == numpy_array_to_LIGOTimeGPSVector(numpy_array, Tsft, emptyOk)
          IN  call' = [op |-> "_numpy_array_to_LIGOTimeGPSVector",
                       args |-> [numpy_array |-> numpy_array, Tsft |-> Tsft],
                       exc |-> r.exc, ret |-> r.ret]
    /\ UNCHANGED <<snr, ds, threads>>

NextGPS ==
    \/ CallNumpyArrayToLIGOTimeGPSVector
    \/ Return

SpecGPS == Init /\ [][NextGPS]_vars

(***************************************************************************)
(* DetectorStates.get_multi_detector_states (snr.py).                      *)
(***************************************************************************)
\* Detector names XLALParseMultiLALDetector knows, among those tried.
KnownDetectors == {"H1", "L1"}

\* A Python str is the sequence of its pieces: detector names, "," and " ".
\* detectors.replace(" ", "")
RemoveSpaces(str) == SelectSeq(str, LAMBDA c : c # " ")

\* One name of a split string: the piece between two commas.
NameOf(pieces) ==
    IF Len(pieces) = 0 THEN ""
    ELSE IF Len(pieces) = 1 THEN pieces[1]
    ELSE "garbled"

\* str.split(","): always at least one, possibly empty, name.
RECURSIVE Split(_, _)
Split(str, current) ==
    IF Len(str) = 0 THEN <<NameOf(current)>>
    ELSE IF Head(str) = ","
    THEN <<NameOf(current)>> \o Split(Tail(str), <<>>)
    ELSE Split(Tail(str), Append(current, Head(str)))

\* The attributes of a dict that are methods giving its keys and values.
DictMethods == {"keys", "values", "items"}

\* lalpulsar.ParseMultiLALDetector(self.multi_detector, detectors), the library
\* call of line 399: it fails on no list, an empty list or an unknown name, and
\* has then filled the new MultiLALDetector with none or some of the names before
\* the failure.
MultiLALDetector(sites) == [length |-> Len(sites), sites |-> sites]

RECURSIVE KnownPrefix(_)
KnownPrefix(names) ==
    IF Len(names) = 0 \/ Head(names) \notin KnownDetectors THEN <<>>
    ELSE <<Head(names)>> \o KnownPrefix(Tail(names))

ParseMultiLALDetector(detectors, partial) ==
    IF detectors.k # "list" \/ Len(detectors.v) = 0
    THEN [exc |-> "RuntimeError", multi_detector |-> MultiLALDetector(<<>>)]
    ELSE IF \E name \in Range(detectors.v) : name \notin KnownDetectors
    THEN [exc |-> "RuntimeError",
          multi_detector |-> IF partial
                             THEN MultiLALDetector(KnownPrefix(detectors.v))
                             ELSE MultiLALDetector(<<>>)]
    ELSE [exc |-> "none", multi_detector |-> MultiLALDetector(detectors.v)]

\* The loop of lines 404-407 from index ind on: each sequence is converted and
\* stored in its slot, until one conversion raises.
RECURSIVE ConvertEach(_, _, _, _, _)
ConvertEach(series, ind, timestamps, Tsft, emptyOk) ==
    IF ind > Len(timestamps)
    THEN [exc |-> "none", data |-> series, converted |-> ind - 1]
    ELSE LET r == numpy_array_to_LIGOTimeGPSVector(timestamps[ind], Tsft, emptyOk)
         IN  IF r.exc # "none"
             THEN [exc |-> r.exc, data |-> series, converted |-> ind - 1]
             ELSE IF ind > Len(series)
             THEN [exc |-> "IndexError", data |-> series, converted |-> ind]
             ELSE ConvertEach([series EXCEPT ![ind] = r.ret], ind + 1,
                              timestamps, Tsft, emptyOk)

Steps(parsed, created, converted) ==
    [ParseMultiLALDetector |-> parsed, CreateMultiLIGOTimeGPSVector |-> created,
     converted |-> converted]

\* Lines 398-407, on the detectors and the sequences the branches above chose.
ParseTail(self, timestamps, Tsft, detectors, lib) ==
    LET p == ParseMultiLALDetector(detectors, lib.partial)
        created == [X \in 1..p.multi_detector.length |-> NullVector]
        c == ConvertEach(created, 1, timestamps, Tsft, lib.emptyOk)
    IN  IF p.exc # "none"
        THEN [exc |-> p.exc, steps |-> Steps(TRUE, FALSE, 0),
              self |-> [self EXCEPT !.multi_detector = p.multi_detector]]
        ELSE [exc |-> c.exc, steps |-> Steps(TRUE, TRUE, c.converted),
              self |-> [self EXCEPT !.multi_detector = p.multi_detector,
                                    !.multi_timestamps = c.data]]

\* _parse_timestamps_and_detectors.  A dict is asked for its attribute `method`
\* (line 384 asks for "key").
parse_with(method, self, timestamps, Tsft, detectors, lib) ==
    IF timestamps.k = "dict"
    THEN IF detectors # None
         THEN [exc |-> "ValueError", steps |-> Steps(FALSE, FALSE, 0), self |-> self]
         ELSE IF method \notin DictMethods
         THEN [exc |-> "AttributeError", steps |-> Steps(FALSE, FALSE, 0),
               self |-> self]
         ELSE ParseTail(self,
                        [i \in 1..Len(timestamps.v) |-> timestamps.v[i].value],
                        Tsft,
                        PyList([i \in 1..Len(timestamps.v) |-> timestamps.v[i].key]),
                        lib)
    ELSE IF detectors # None
    THEN LET names == IF detectors.k = "str"
                      THEN PyList(Split(RemoveSpaces(detectors.v), <<>>))
                      ELSE detectors
             ts == np_array(timestamps)
         IN  IF ts.dtype = "O" \/ ts.ndim > 1
             THEN [exc |-> "ValueError", steps |-> Steps(FALSE, FALSE, 0),
                   self |-> self]
             ELSE ParseTail(self, [ifo \in 1..Len(names.v) |-> ts], Tsft, names, lib)
    ELSE \* neither a dict nor detectors: line 399 is reached with detectors=None
         ParseTail(self, <<>>, Tsft, detectors, lib)

parse_timestamps_and_detectors_NoRedundancyCheck(self, timestamps, Tsft, detectors, lib) ==
    parse_with("key", self, timestamps, Tsft,
               IF timestamps.k = "dict" THEN None ELSE detectors, lib)

parse_timestamps_and_detectors(self, timestamps, Tsft, detectors, lib) ==
    parse_with("key", self, timestamps, Tsft, detectors, lib)

\* lalpulsar.GetMultiDetectorStates: one state per detector and timestamp, at the
\* timestamp plus the offset, from the ephemeris.  statesOk: whether the library
\* accepts a series without timestamps.
NoStates == [null |-> TRUE, length |-> 0, data |-> <<>>]
GetMultiDetectorStates(multi_timestamps, multi_detector, ephems, time_offset, statesOk) ==
    IF (\E X \in DOMAIN multi_timestamps : multi_timestamps[X].length = 0)
        /\ ~statesOk
    THEN [exc |-> "RuntimeError", ret |-> NoStates]
    ELSE [exc |-> "none",
          ret |-> [null |-> FALSE, length |-> multi_detector.length,
                   data |-> [X \in 1..multi_detector.length |->
                              [detector |-> multi_detector.sites[X],
                               deltaT |-> multi_timestamps[X].deltaT,
                               tGPS |-> multi_timestamps[X].data,
                               tOffset |-> time_offset,
                               edat |-> ephems]]]]

get_multi_detector_states(self, timestamps, Tsft, detectors, time_offset, lib) ==
    LET p == parse_timestamps_and_detectors(self, timestamps, Tsft, detectors, lib)
        g == GetMultiDetectorStates(p.self.multi_timestamps, p.self.multi_detector,
                                    p.self.ephems, time_offset, lib.statesOk)
    IN  IF p.exc # "none"
        THEN [exc |-> p.exc, ret |-> NoStates, self |-> p.self,
              steps |-> p.steps, GetMultiDetectorStates |-> FALSE]
        ELSE [exc |-> g.exc, ret |-> g.ret, self |-> p.self,
              steps |-> p.steps, GetMultiDetectorStates |-> TRUE]

\* The ephemeris lalpulsar.InitBarycenter loads.
Ephemeris == "ephemeris"

\* DetectorStates()
ConstructDetectorStates ==
    /\ call = Idle
    /\ ds' = [constructed |-> TRUE, ephems |-> Ephemeris,
              multi_detector |-> Unset, multi_timestamps |-> Unset]
    /\ call' = [op |-> "DetectorStates", exc |-> "none"]
    /\ UNCHANGED <<snr, threads>>

ParseTimes == {Rat(TickDen + 1, TickDen), NaN}
ListInputs == {PyList(v) : v \in SeqsUpTo(ParseTimes, MaxLen)}
OtherInputs ==
    {Zero,
     PyList(<<PyList(<<Zero>>), PyList(<<Half>>)>>),
     PyList(<<PyList(<<Zero, Half>>), PyList(<<Zero>>)>>),
     PyList(<<Zero, None>>),
     PyList(<<PyStr("a"), PyStr("b")>>)}
DictArrays == {NdArray("float", 1, <<Zero>>), NdArray("float", 1, <<Zero, Half>>)}
DictInputs ==
    {[k |-> "dict", v |-> <<>>]}
        \cup {[k |-> "dict", v |-> <<[key |-> key, value |-> a]>>] :
                key \in {"H1", "XX"}, a \in DictArrays}
        \cup {[k |-> "dict",
               v |-> <<[key |-> "H1", value |-> a], [key |-> "L1", value |-> b]>>] :
                a \in DictArrays, b \in DictArrays}
TimestampInputs == ListInputs \cup OtherInputs \cup DictInputs

DetectorInputs ==
    {None,
     PyStr(<<"H1">>), PyStr(<<"H1", ",", " ", "L1">>), PyStr(<<>>),
     PyStr(<<"XX">>),
     PyList(<<"H1">>), PyList(<<"H1", "L1">>), PyList(<<"H1", "XX">>),
     PyList(<<>>)}

LibraryChoices == [partial : BOOLEAN, emptyOk : BOOLEAN, statesOk : BOOLEAN]

CallGetMultiDetectorStates ==
    /\ call = Idle
    /\ ds.constructed
    /\ \E timestamps \in TimestampInputs, Tsft \in {Zero, RInt(1800)},
          detectors \in DetectorInputs, lib \in LibraryChoices :
          LET r == get_multi_detector_states(ds, timestamps, Tsft, detectors,
                                             Zero, lib)
          IN  /\ call' = [op |-> "get_multi_detector_states",
                          args |-> [timestamps |-> timestamps, Tsft |-> Tsft,
                                    detectors |-> detectors, time_offset |-> Zero],
                          before |-> ds,
                          exc |-> r.exc, ret |-> r.ret, steps |-> r.steps,
                          GetMultiDetectorStates |-> r.GetMultiDetectorStates]
              /\ ds' = r.self
    /\ UNCHANGED <<snr, threads>>

NextDetectorStates ==
    \/ ConstructDetectorStates
    \/ CallGetMultiDetectorStates
    \/ Return

SpecDetectorStates == Init /\ [][NextDetectorStates]_vars

(***************************************************************************)
(* get_multi_detector_states called by several threads on one instance.    *)
(* The interpreter may switch threads between any two statements, so each  *)
(* statement that reads or writes an attribute of self is one step; pc is  *)
(* the line the thread executes next.  The statements of lines 378-396     *)
(* touch only the thread's own arguments and are one step with the call.   *)
(***************************************************************************)
\* Lines 378-396: the detector names and the sequences the branches choose.
ParseArguments(method, timestamps, detectors) ==
    IF timestamps.k = "dict"
    THEN IF detectors # None
         THEN [exc |-> "ValueError", detectors |-> detectors, timestamps |-> <<>>]
         ELSE IF method \notin DictMethods
         THEN [exc |-> "AttributeError", detectors |-> detectors, timestamps |-> <<>>]
         ELSE [exc |-> "none",
               detectors |-> PyList([i \in 1..Len(timestamps.v) |-> timestamps.v[i].key]),
               timestamps |-> [i \in 1..Len(timestamps.v) |-> timestamps.v[i].value]]
    ELSE IF detectors # None
    THEN LET names == IF detectors.k = "str"
                      THEN PyList(Split(RemoveSpaces(detectors.v), <<>>))
                      ELSE detectors
             ts == np_array(timestamps)
         IN  IF ts.dtype = "O" \/ ts.ndim > 1
             THEN [exc |-> "ValueError", detectors |-> detectors, timestamps |-> <<>>]
             ELSE [exc |-> "none", detectors |-> names,
                   timestamps |-> [ifo \in 1..Len(names.v) |-> ts]]
    ELSE [exc |-> "none", detectors |-> detectors, timestamps |-> <<>>]

Raised(thread, exc) == [pc |-> "done", args |-> thread.args, exc |-> exc, ret |-> NoStates]

\* What the threads call with: one or two timestamps, for one or two detectors.
ConcurrentTimestamps ==
    {PyList(<<Rat(TickDen + 1, TickDen)>>), PyList(<<Zero, Half>>),
     [k |-> "dict", v |-> <<[key |-> "H1", value |-> NdArray("float", 1, <<Zero>>)]>>]}
ConcurrentDetectors == {PyStr(<<"H1">>), PyList(<<"L1", "H1">>), PyStr(<<"XX">>)}

\* A thread calls get_multi_detector_states and executes lines 378-396.
Invoke(t) ==
    /\ call = Idle
    /\ ds.constructed
    /\ threads[t].pc = "idle"
    /\ \E timestamps \in ConcurrentTimestamps, detectors \in ConcurrentDetectors :
          LET args == [timestamps |-> timestamps, Tsft |-> RInt(1800),
                       detectors |-> detectors, time_offset |-> Zero]
              a == ParseArguments("key", timestamps, detectors)
          IN  threads' = [threads EXCEPT ![t] =
                            IF a.exc # "none"
                            THEN Raised([args |-> args], a.exc)
                            ELSE [pc |-> "398", args |-> args,
                                  detectors |-> a.detectors,
                                  timestamps |-> a.timestamps, ind |-> 1]]
    /\ UNCHANGED <<snr, ds, call>>

\* Line 398: self.multi_detector = lalpulsar.MultiLALDetector()
NewMultiLALDetector(t) ==
    /\ threads[t].pc = "398"
    /\ ds' = [ds EXCEPT !.multi_detector = MultiLALDetector(<<>>)]
    /\ threads' = [threads EXCEPT ![t].pc = "399"]
    /\ UNCHANGED <<snr, call>>

\* Line 399: the library fills the structure self.multi_detector refers to now.
CallParseMultiLALDetector(t) ==
    /\ threads[t].pc = "399"
    /\ \E partial \in BOOLEAN :
          LET p == ParseMultiLALDetector(threads[t].detectors, partial)
          IN  /\ ds' = [ds EXCEPT !.multi_detector = p.multi_detector]
              /\ threads' = [threads EXCEPT ![t] =
                                IF p.exc # "none" THEN Raised(threads[t], p.exc)
                                ELSE [threads[t] EXCEPT !.pc = "401"]]
    /\ UNCHANGED <<snr, call>>

\* Lines 401-403: one empty slot per detector self.multi_detector holds now.
CreateMultiLIGOTimeGPSVector(t) ==
    /\ threads[t].pc = "401"
    /\ ds' = [ds EXCEPT !.multi_timestamps =
                            [X \in 1..ds.multi_detector.length |-> NullVector]]
    /\ threads' = [threads EXCEPT ![t].pc = "405"]
    /\ UNCHANGED <<snr, call>>

\* Lines 404-407, one pass of the loop: the next sequence is converted and stored
\* in its slot of the series self.multi_timestamps refers to now.
ConvertNext(t) ==
    /\ threads[t].pc = "405"
    /\ LET thread == threads[t]
           ind == thread.ind
           r == numpy_array_to_LIGOTimeGPSVector(thread.timestamps[ind],
                                                 thread.args.Tsft, TRUE)
       IN  IF r.exc # "none"
           THEN /\ threads' = [threads EXCEPT ![t] = Raised(thread, r.exc)]
                /\ UNCHANGED ds
           ELSE IF ind > Len(ds.multi_timestamps)
           THEN /\ threads' = [threads EXCEPT ![t] = Raised(thread, "IndexError")]
                /\ UNCHANGED ds
           ELSE /\ ds' = [ds EXCEPT !.multi_timestamps[ind] = r.ret]
                /\ threads' = [threads EXCEPT ![t] =
                                 IF ind = Len(thread.timestamps)
                                 THEN [thread EXCEPT !.pc = "302"]
                                 ELSE [thread EXCEPT !.ind = ind + 1]]
    /\ UNCHANGED <<snr, call>>

\* What lalpulsar.GetMultiDetectorStates refuses: no detector, a series count
\* that differs from the detector count, a slot without a series.
Malformed(multi_timestamps, multi_detector) ==
    \/ multi_detector.length = 0
    \/ Len(multi_timestamps) # multi_detector.length
    \/ \E X \in DOMAIN multi_timestamps : multi_timestamps[X].null

\* Lines 302-307: the states of what self.multi_timestamps and
\* self.multi_detector hold now.
ComputeStates(t) ==
    /\ threads[t].pc = "302"
    /\ LET thread == threads[t]
           g == IF Malformed(ds.multi_timestamps, ds.multi_detector)
                THEN [exc |-> "RuntimeError", ret |-> NoStates]
                ELSE GetMultiDetectorStates(ds.multi_timestamps, ds.multi_detector,
                                            ds.ephems, thread.args.time_offset, TRUE)
       IN  threads' = [threads EXCEPT ![t] =
                         [pc |-> "done", args |-> thread.args,
                          exc |-> g.exc, ret |-> g.ret]]
    /\ UNCHANGED <<snr, ds, call>>

\* The thread's caller takes the outcome.
ThreadReturn(t) ==
    /\ threads[t].pc = "done"
    /\ threads' = [threads EXCEPT ![t] = NotStarted]
    /\ UNCHANGED <<snr, ds, call>>

\* The one instance the threads share is constructed before any of them runs.
ConstructShared ==
    /\ ~ds.constructed
    /\ ConstructDetectorStates

NextConcurrent ==
    \/ ConstructShared
    \/ Return
    \/ \E t \in Threads :
          \/ Invoke(t)
          \/ NewMultiLALDetector(t)
          \/ CallParseMultiLALDetector(t)
          \/ CreateMultiLIGOTimeGPSVector(t)
          \/ ConvertNext(t)
          \/ ComputeStates(t)
          \/ ThreadReturn(t)

SpecConcurrent == Init /\ [][NextConcurrent]_vars

(***************************************************************************)
(* generate_loudest_file and get_lal_exec (runlalsuite.py).                *)
(*                                                                         *)
(* A dict is the sequence of its items in insertion order.  A command line *)
(* is the executable's name and the "--key=val" options in their order.    *)
(***************************************************************************)
Item(key, val) == [key |-> key, val |-> val]
Keys(dict) == {dict[i].key : i \in DOMAIN dict}

\* dict.update of one item: the value of a key already there is replaced in its
\* place, a new key is appended.
SetItem(dict, item) ==
    IF item.key \in Keys(dict)
    THEN [i \in DOMAIN dict |-> IF dict[i].key = item.key THEN item ELSE dict[i]]
    ELSE Append(dict, item)

\* dict.update(other)
RECURSIVE Update(_, _)
Update(dict, other) ==
    IF Len(other) = 0 THEN dict
    ELSE Update(SetItem(dict, Head(other)), Tail(other))

\* `if val`: None, 0 and the empty string are false.
Truthy(val) == val \notin {None, Zero, PyStr("")}

\* os.path.join(outdir, file) of a relative file name
JoinPath(outdir, file) == [k |-> "path", dir |-> outdir, file |-> file]

\* shutil.which(name), where PATH is the set of executables that can be found
Which(name, PATH) == IF name \in PATH THEN JoinPath("bin", name) ELSE None

\* get_lal_exec(cmd): the lalpulsar name is preferred; the lalapps name is
\* looked up only if the lalpulsar one is not found.  which: the look-ups made.
get_lal_exec(cmd, PATH) ==
    LET first == Which(<<"lalpulsar_", cmd>>, PATH)
        second == Which(<<"lalapps_", cmd>>, PATH)
        full_cmd == IF first # None THEN first ELSE second
        which == IF first # None THEN <<<<"lalpulsar_", cmd>>>>
                 ELSE <<<<"lalpulsar_", cmd>>, <<"lalapps_", cmd>>>>
    IN  IF full_cmd = None
        THEN [exc |-> "RuntimeError", ret |-> None, which |-> which]
        ELSE [exc |-> "none", ret |-> full_cmd.file, which |-> which]

\* run_commandline(cmd, return_output=False): the command is executed once, and
\* an exit status other than 0 raises.
run_commandline(cmd, status) ==
    [exc |-> IF status = 0 THEN "none" ELSE "CalledProcessError", run |-> <<cmd>>]

\* The keys line 163 looks for.
GlitchKeys == {"delta_F0", "delta_F1", "tglitch"}

\* generate_loudest_file, refusing the keys in glitch_keys; env: the executables
\* on the PATH and the exit status ComputeFstatistic_v2 would give.
generate_with(glitch_keys, max_params, tref, outdir, label, sftfilepattern, minStartTime, maxStartTime, transientWindowType, earth_ephem, sun_ephem, env) ==
    LET loudest_file == JoinPath(outdir, <<label, ".loudest">>)
        e == get_lal_exec("ComputeFstatistic_v2", env.PATH)
        opt_params == <<Item("minStartTime", minStartTime),
                        Item("maxStartTime", maxStartTime),
                        Item("transient-WindowType", transientWindowType),
                        Item("ephemEarth", earth_ephem),
                        Item("ephemSun", sun_ephem)>>
        CFSv2_params ==
            Update(Update(<<Item("DataFiles", [k |-> "quoted", v |-> sftfilepattern]),
                            Item("outputLoudest", loudest_file),
                            Item("refTime", tref)>>,
                          max_params),
                   SelectSeq(opt_params, LAMBDA item : Truthy(item.val)))
        cmd == [exec |-> e.ret, options |-> CFSv2_params]
        r == run_commandline(cmd, env.status)
    IN  IF \E key \in glitch_keys : key \in Keys(max_params)
        THEN [exc |-> "RuntimeError", ret |-> None, warning |-> FALSE,
              which |-> <<>>, run |-> <<>>]
        ELSE IF e.exc # "none"
        THEN [exc |-> e.exc, ret |-> None, warning |-> Truthy(transientWindowType),
              which |-> e.which, run |-> <<>>]
        ELSE [exc |-> r.exc,
              ret |-> IF r.exc = "none" THEN loudest_file ELSE None,
              warning |-> Truthy(transientWindowType),
              which |-> e.which, run |-> r.run]

generate_loudest_file_DeltaF1Allowed(max_params, tref, outdir, label, sftfilepattern, minStartTime, maxStartTime, transientWindowType, earth_ephem, sun_ephem, env) ==
    generate_with({"delta_F0", "tglitch"}, max_params, tref, outdir, label,
                  sftfilepattern, minStartTime, maxStartTime, transientWindowType,
                  earth_ephem, sun_ephem, env)

generate_loudest_file(max_params, tref, outdir, label, sftfilepattern, minStartTime, maxStartTime, transientWindowType, earth_ephem, sun_ephem, env) ==
    generate_with(GlitchKeys, max_params, tref, outdir, label,
                  sftfilepattern, minStartTime, maxStartTime, transientWindowType,
                  earth_ephem, sun_ephem, env)

\* Parameter-space points in lal conventions, with or without glitch parameters:
\* every subset of the keys, in one order.
ParamKeys == <<"Alpha", "Freq", "delta_F0", "delta_F1", "tglitch">>
MaxParamsValues ==
    {[i \in 1..Len(keys) |-> Item(keys[i], Half)] :
        keys \in {SelectSeq(ParamKeys, LAMBDA key : key \in S) :
                    S \in SUBSET Range(ParamKeys)}}

Executables == {<<"lalpulsar_", "ComputeFstatistic_v2">>,
                <<"lalapps_", "ComputeFstatistic_v2">>}
Environments == [PATH : SUBSET Executables, status : {0, 1}]

CallGenerateLoudestFile ==
    /\ call = Idle
    /\ \E max_params \in MaxParamsValues, outdir \in {"out", "."},
          label \in {"a", "b"}, minStartTime \in {None, Zero, RInt(10)},
          maxStartTime \in {None, RInt(20)},
          transientWindowType \in {None, PyStr("rect")}, env \in Environments :
          LET r == generate_loudest_file(max_params, RInt(5), outdir, label,
                                         "*.sft", minStartTime, maxStartTime,
                                         transientWindowType, None, None, env)
          IN  call' = [op |-> "generate_loudest_file",
                       args |-> [max_params |-> max_params, tref |-> RInt(5),
                                 outdir |-> outdir, label |-> label,
                                 sftfilepattern |-> "*.sft",
                                 minStartTime |-> minStartTime,
                                 maxStartTime |-> maxStartTime,
                                 transientWindowType |-> transientWindowType],
                       env |-> env,
                       exc |-> r.exc, ret |-> r.ret, warning |-> r.warning,
                       which |-> r.which, run |-> r.run]
    /\ UNCHANGED <<snr, ds, threads>>

NextLoudest ==
    \/ CallGenerateLoudestFile
    \/ Return

SpecLoudest == Init /\ [][NextLoudest]_vars

(***************************************************************************)
(* The whole program.  The components share no state (an instance of one   *)
(* class is never read by another's methods), so each is also given its    *)
(* own specification above, under which its properties are checked.        *)
(***************************************************************************)
Next ==
    \/ NextSNR
    \/ NextBand
    \/ NextGPS
    \/ NextDetectorStates
    \/ NextConcurrent
    \/ NextLoudest

Spec == Init /\ [][Next]_vars

(***************************************************************************)
(* Properties of SignalToNoiseRatio.                                       *)
(***************************************************************************)
AmplitudeOps == {"_convert_amplitude_parameters", "compute_snr2", "compute_twoF"}

Present(x) == x # None
\* Exactly one basis is complete and both members of the other are absent.
OneCompleteBasis(a) ==
    \/ /\ Present(a.h0) /\ Present(a.cosi)
       /\ ~Present(a.aPlus) /\ ~Present(a.aCross)
    \/ /\ Present(a.aPlus) /\ Present(a.aCross)
       /\ ~Present(a.h0) /\ ~Present(a.cosi)

\* C1: a call with amplitude parameters raises the configuration error (ValueError)
\* unless exactly one basis is complete and the other basis is entirely absent, and
\* succeeds in exactly that case: a partially filled basis beside a complete one is
\* rejected too.
C1_AmplitudeBasisValidated ==
    call.op \in AmplitudeOps =>
        /\ ~OneCompleteBasis(call.args) => call.exc = "ValueError"
        /\ OneCompleteBasis(call.args) => call.exc = "none"

ExactlyOneNoiseSource(noise_weights, assumeSqrtSX) ==
    Present(noise_weights) # Present(assumeSqrtSX)

\* Sinv_Tsft * assumeSqrtSX^2 = Tsft, on numerators and denominators.
IsTsftOverSquare(Sinv_Tsft, Tsft, sx) ==
    /\ IsNum(Sinv_Tsft)
    /\ Sinv_Tsft.n * sx.n * sx.n * Tsft.d = Tsft.n * sx.d * sx.d * Sinv_Tsft.d

ConstructionAsClaimed(nonzero_only) ==
    call.op = "SignalToNoiseRatio" =>
        LET a == call.args
        IN  /\ ~ExactlyOneNoiseSource(a.noise_weights, a.assumeSqrtSX)
                => call.exc = "ValueError"
            /\ ( /\ ExactlyOneNoiseSource(a.noise_weights, a.assumeSqrtSX)
                 /\ nonzero_only => a.assumeSqrtSX # RInt(0) )
                => /\ call.exc = "none"
                   /\ snr.noise_weights = a.noise_weights
                   /\ snr.assumeSqrtSX = a.assumeSqrtSX
                   /\ Present(a.assumeSqrtSX)
                        => IsTsftOverSquare(snr.Sinv_Tsft, a.deltaT, a.assumeSqrtSX)

\* C2 (as stated): constructing with both noise sources or with neither raises the
\* configuration error; with exactly one, construction succeeds, a flat floor
\* stores Sinv_Tsft = Tsft / assumeSqrtSX^2, and every instance has exactly one
\* active noise source.
C2_ConstructionAsStated ==
    /\ ConstructionAsClaimed(FALSE)
    /\ snr.constructed => ExactlyOneNoiseSource(snr.noise_weights, snr.assumeSqrtSX)

\* C2 (amended): as stated, except that a flat floor of zero is not accepted: with
\* exactly one source supplied construction succeeds provided assumeSqrtSX, when
\* it is the source, is not zero.
C2_ConstructionNonZeroFloor ==
    /\ ConstructionAsClaimed(TRUE)
    /\ snr.constructed => ExactlyOneNoiseSource(snr.noise_weights, snr.assumeSqrtSX)

C2_Witness ==
    /\ call.op = "SignalToNoiseRatio"
    /\ call.exc = "none"
    /\ call.args.assumeSqrtSX = RInt(2)
    /\ snr.Sinv_Tsft = RInt(450)

\* C4: compute_snr2 and compute_twoF never hand back a squared SNR that is NaN or
\* negative: when the quadratic form is NaN or negative the call raises.
C4_NoNegativeOrNaNSnr2 ==
    call.op \in {"compute_snr2", "compute_twoF"} =>
        /\ (IsNaN(call.quad) \/ FLt(call.quad, RInt(0))) => call.exc # "none"
        /\ call.exc = "none" => FLeq(RInt(0), call.snr2)

\* The square of a standard deviation: of a surd its radicand.
Squared(x) == IF x.k = "sqrt" THEN Rat(x.n, x.d) ELSE RMul(x, x)

\* C5: for a squared SNR s >= 0 from compute_snr2, compute_twoF returns
\* expected_2F = 4 + s and a non-negative stdev_2F with stdev_2F^2 = 8 + 4 s, and
\* compute_snr2 is called with exactly the arguments compute_twoF was given.
C5_TwoFFromSnr2 ==
    call.op = "compute_twoF" =>
        /\ call.snr2_args = call.args
        /\ (call.exc = "none" /\ FLeq(RInt(0), call.snr2)) =>
              LET s == call.snr2
                  e == call.expected_2F
                  v == Squared(call.stdev_2F)
              IN  /\ IsNum(e)
                  /\ e.n * s.d = (4 * s.d + s.n) * e.d
                  /\ call.stdev_2F.k \in {"num", "sqrt"}
                  /\ call.stdev_2F.n >= 0
                  /\ v.n * s.d = (8 * s.d + 4 * s.n) * v.d

C5_Witness ==
    /\ call.op = "compute_twoF"
    /\ call.exc = "none"
    /\ call.snr2 = RInt(0)
    /\ call.expected_2F = RInt(4)
    /\ call.stdev_2F = [k |-> "sqrt", n |-> 8, d |-> 1]

\* The canonical amplitudes a call has produced.
Canonical ==
    IF call.op = "compute_snr2"
    THEN [aPlus |-> call.Aphys.aPlus, aCross |-> call.Aphys.aCross]
    ELSE [aPlus |-> call.aPlus, aCross |-> call.aCross]

\* C6: from the (h0, cosi) basis the canonical amplitudes are
\* aPlus = 0.5 h0 (1 + cosi^2) and aCross = h0 cosi, both h0 when cosi = 1; the
\* (aPlus, aCross) basis is returned unchanged.
C6_AmplitudeConversion ==
    (call.op \in {"_convert_amplitude_parameters", "compute_snr2"}
        /\ call.exc = "none") =>
        LET a == call.args
            p == Canonical.aPlus
            c == Canonical.aCross
        IN  IF Present(a.h0) /\ Present(a.cosi)
            THEN /\ IsNum(p) /\ IsNum(c)
                 /\ 2 * p.n * a.h0.d * a.cosi.d * a.cosi.d
                      = p.d * a.h0.n * (a.cosi.d * a.cosi.d + a.cosi.n * a.cosi.n)
                 /\ c.n * a.h0.d * a.cosi.d = c.d * a.h0.n * a.cosi.n
                 /\ a.cosi = RInt(1) => (p = a.h0 /\ c = a.h0)
            ELSE p = a.aPlus /\ c = a.aCross

C6_Witness ==
    /\ call.op = "_convert_amplitude_parameters"
    /\ call.exc = "none"
    /\ call.args.h0 = RInt(1)
    /\ call.args.cosi = Half
    /\ call.aPlus = Rat(5, 8)
    /\ call.aCross = Half

(***************************************************************************)
(* Properties of get_covering_band.                                        *)
(***************************************************************************)
Finite(x) == IsNum(x)

\* C3: get_covering_band returns the library's pair only if both values are
\* finite, both are strictly positive and min <= max; every other pair raises the
\* computation error (RuntimeError) and nothing is returned.
C3_CoveringBandValidated ==
    call.op = "get_covering_band" =>
        LET lo == call.library[1]
            hi == call.library[2]
            valid == /\ Finite(lo) /\ Finite(hi)
                     /\ FLt(Zero, lo) /\ FLt(Zero, hi)
                     /\ FLeq(lo, hi)
        IN  /\ valid => (call.exc = "none" /\ call.ret = <<lo, hi>>)
            /\ ~valid => (call.exc = "RuntimeError" /\ call.ret = <<None, None>>)

(***************************************************************************)
(* Properties of DetectorStates.                                           *)
(***************************************************************************)
\* C7: every time t that _numpy_array_to_LIGOTimeGPSVector converts becomes
\* (seconds, nanoseconds) with seconds = floor(t), 0 <= nanoseconds < 1e9 and
\* nanoseconds = floor(1e9 (t - seconds)), so that seconds + nanoseconds / 1e9
\* is at most t and less than a nanosecond below it; the vector has the input's
\* length and order.
C7_TimestampSplit ==
    (call.op = "_numpy_array_to_LIGOTimeGPSVector" /\ call.exc = "none") =>
        LET in == call.args.numpy_array.data
            out == call.ret.data
        IN  /\ call.ret.length = Len(in)
            /\ Len(out) = Len(in)
            /\ \A i \in 1..Len(in) :
                 LET t == in[i]
                     sec == out[i][1]
                     ns == out[i][2]
                     \* 1e9 (t - sec), the time left over in nanoseconds
                     y == RMul(RInt(1000000000), RSub(t, RInt(sec)))
                 IN  /\ RLeq(RInt(sec), t) /\ RLt(t, RInt(sec + 1))
                     /\ 0 <= ns /\ ns < 1000000000
                     /\ RLeq(RInt(ns), y) /\ RLt(y, RInt(ns + 1))

C7_Witness ==
    /\ call.op = "_numpy_array_to_LIGOTimeGPSVector"
    /\ call.exc = "none"
    /\ call.args.numpy_array.data = <<Rat(TickDen + 1, TickDen), Rat(-1, 2)>>
    /\ call.ret.data[1][1] = 1
    /\ call.ret.data[1][2] = 1000000000 \div TickDen
    /\ call.ret.data[2] = <<-1, 500000000>>

IsGMDS == call.op = "get_multi_detector_states"
MappingForm == call.args.timestamps.k = "dict"
\* _parse_timestamps_and_detectors returned: the state computation was reached.
ParseSucceeded == call.GetMultiDetectorStates

\* The (seconds, nanoseconds) pairs of a sequence of finite times.
Converted(times) == [i \in 1..Len(times) |-> <<seconds(times[i]), nanoseconds(times[i])>>]

\* The detector names the call names: the mapping's keys, the list, or the
\* comma-separated names of the string.
GivenDetectors ==
    IF MappingForm
    THEN [i \in 1..Len(call.args.timestamps.v) |-> call.args.timestamps.v[i].key]
    ELSE IF call.args.detectors.k = "str"
    THEN Split(RemoveSpaces(call.args.detectors.v), <<>>)
    ELSE call.args.detectors.v

\* The time sequence the call gives for its X-th detector.
GivenTimes(X) ==
    IF MappingForm THEN call.args.timestamps.v[X].value.data
    ELSE call.args.timestamps.v

WellFormedMapping ==
    /\ MappingForm
    /\ call.args.detectors = None
    /\ Len(call.args.timestamps.v) > 0
    /\ \A i \in 1..Len(call.args.timestamps.v) :
         LET item == call.args.timestamps.v[i]
         IN  /\ item.key \in KnownDetectors
             /\ item.value.ndim = 1 /\ item.value.dtype = "float"
             /\ Len(item.value.data) > 0
             /\ \A t \in Range(item.value.data) : IsNum(t)

\* C8: both input forms are accepted, and a successful
\* _parse_timestamps_and_detectors leaves one timestamp series per detector,
\* aligned by index: in mapping form the detectors are the keys and each has its
\* own key's sequence, in array form every listed detector has the same converted
\* sequence; every series carries the given Tsft.
C8_SeriesAlignedWithDetectors ==
    IsGMDS =>
        /\ WellFormedMapping => ParseSucceeded
        /\ ParseSucceeded =>
             /\ ds.multi_detector.sites = GivenDetectors
             /\ Len(ds.multi_timestamps) = Len(GivenDetectors)
             /\ \A X \in 1..Len(GivenDetectors) :
                  /\ ~ds.multi_timestamps[X].null
                  /\ ds.multi_timestamps[X].data = Converted(GivenTimes(X))
                  /\ ds.multi_timestamps[X].deltaT = call.args.Tsft

\* C9: a mapping of timestamps together with any detectors argument raises the
\* configuration error (ValueError) before any detector is parsed, any timestamp
\* converted or any state computed, with the instance as it was.
C9_RedundantDetectorsRejectedFirst ==
    (IsGMDS /\ MappingForm /\ call.args.detectors # None) =>
        /\ call.exc = "ValueError"
        /\ call.steps = Steps(FALSE, FALSE, 0)
        /\ ~call.GetMultiDetectorStates
        /\ call.ret = NoStates
        /\ ds = call.before

C9_Witness ==
    /\ IsGMDS
    /\ MappingForm
    /\ call.args.detectors = PyList(<<"H1", "L1">>)
    /\ call.exc = "ValueError"
    /\ ds.multi_detector = MultiLALDetector(<<"H1">>)

\* A one-dimensional sequence of pure numbers.
OneDimensionalNumbers(x) ==
    /\ x.k = "list"
    /\ \A e \in Range(x.v) : IsFloat(e)

ParsableDetectors ==
    /\ Len(GivenDetectors) > 0
    /\ \A name \in Range(GivenDetectors) : name \in KnownDetectors

\* C10: in array form (detectors given), timestamps that are not a one-dimensional
\* sequence of pure numbers (a scalar, two or more dimensions, ragged or object
\* input, strings) raise the shape error (ValueError), and no detector states
\* are computed.
C10_NonNumeric1DRejected ==
    (IsGMDS /\ ~MappingForm /\ call.args.detectors # None /\ ParsableDetectors
        /\ ~OneDimensionalNumbers(call.args.timestamps)) =>
        /\ call.exc = "ValueError"
        /\ ~call.GetMultiDetectorStates
        /\ call.ret = NoStates

\* C11: in array form with parsable detectors, an empty timestamp sequence raises
\* the configuration error (ValueError): no empty timestamp series is built and
\* none is passed on to the state computation.
C11_EmptyTimestampsRejected ==
    (IsGMDS /\ ~MappingForm /\ call.args.detectors # None /\ ParsableDetectors
        /\ call.args.timestamps = PyList(<<>>)) =>
        /\ call.exc = "ValueError"
        /\ call.steps.converted = 0
        /\ ~call.GetMultiDetectorStates

\* The call failed inside _parse_timestamps_and_detectors, before the state
\* computation.
ParseFailed == call.exc # "none" /\ ~call.GetMultiDetectorStates

\* C14: a get_multi_detector_states call that fails while parsing its arguments
\* (redundant detectors, timestamps that are not one-dimensional numbers,
\* unparsable detector names) leaves multi_detector and multi_timestamps of the
\* instance exactly as they were before the call.
C14_FailureLeavesInstanceUnchanged ==
    (IsGMDS /\ ParseFailed) =>
        /\ ds.multi_detector = call.before.multi_detector
        /\ ds.multi_timestamps = call.before.multi_timestamps

\* C15: array-like timestamps with detectors=None raise the configuration error
\* (ValueError) from the method's own validation: before the timestamps are
\* converted, before any detector is parsed and before any state is computed.
C15_MissingDetectorsRejectedFirst ==
    (IsGMDS /\ ~MappingForm /\ call.args.detectors = None) =>
        /\ call.exc = "ValueError"
        /\ call.steps = Steps(FALSE, FALSE, 0)
        /\ ~call.GetMultiDetectorStates

\* The states a call on its own computes from the arguments of thread t.
OwnStates(t) ==
    get_multi_detector_states(
        [constructed |-> TRUE, ephems |-> Ephemeris,
         multi_detector |-> Unset, multi_timestamps |-> Unset],
        threads[t].args.timestamps, threads[t].args.Tsft, threads[t].args.detectors,
        threads[t].args.time_offset,
        [partial |-> FALSE, emptyOk |-> TRUE, statesOk |-> TRUE]).ret

\* C12: when get_multi_detector_states invocations run concurrently on one shared
\* instance, every invocation that returns has computed its states from its own
\* timestamps and detectors, and the ephemeris of the instance is the one loaded
\* at construction.
C12_ConcurrentInvocationsIndependent ==
    /\ ds.constructed => ds.ephems = Ephemeris
    /\ \A t \in Threads :
         (threads[t].pc = "done" /\ threads[t].exc = "none") =>
             threads[t].ret = OwnStates(t)

IsGLF == call.op = "generate_loudest_file"

\* The value of the option --key of a command line, if it is given exactly once.
OptionValues(cmd, key) ==
    [i \in {j \in DOMAIN cmd.options : cmd.options[j].key = key} |->
        cmd.options[i].val]

====
